---- MODULE Spec2Model ----
(***************************************************************************)
(* CreamSocketServer (src/src/CreamSocketServer.js, the CreamSocketParser  *)
(* revision, lines 286-523) and CreamSocketParser (src/unnamed/part_002)   *)
(* as a state machine.                                                     *)
(*                                                                         *)
(* Bytes are integers 0..255, a Buffer / Uint8Array is a sequence of       *)
(* bytes, a JavaScript string is a sequence of code points.  A JavaScript  *)
(* value is a record [t |-> type tag, v |-> contents]; an object's         *)
(* contents are its properties in insertion order, <<key, value>> pairs.   *)
(***************************************************************************)
EXTENDS Integers, Sequences, FiniteSets

(***************************************************************************)
(* Bounds of the model.                                                    *)
(***************************************************************************)
\* Number of TCP connections the listening socket accepts in one run.
NumConns == 2

Conns == 1..NumConns

(***************************************************************************)
(* Text constants of the source, as code points.                           *)
(***************************************************************************)
\* 'Upgrade: websocket'
UpgradeToken == <<85, 112, 103, 114, 97, 100, 101, 58, 32, 119, 101, 98, 115, 111, 99, 107, 101, 116>>
\* 'sec-websocket-key'
SecWebSocketKeyName == <<115, 101, 99, 45, 119, 101, 98, 115, 111, 99, 107, 101, 116, 45, 107, 101, 121>>
\* '258EAFA5-E914-47DA-95CA-C5AB0DC85B11'
AcceptGuid == <<50, 53, 56, 69, 65, 70, 65, 53, 45, 69, 57, 49, 52, 45, 52, 55, 68, 65, 45, 57, 53, 67, 65, 45, 67, 53, 65, 66, 48, 68, 67, 56, 53, 66, 49, 49>>
\* '\r\n' and ': '
CRLF == <<13, 10>>
ColonSpace == <<58, 32>>
\* String(undefined), String(null), String(true), String(false), String({})
TxtUndefined == <<117, 110, 100, 101, 102, 105, 110, 101, 100>>
TxtNull == <<110, 117, 108, 108>>
TxtTrue == <<116, 114, 117, 101>>
TxtFalse == <<102, 97, 108, 115, 101>>
TxtObjectObject == <<91, 111, 98, 106, 101, 99, 116, 32, 79, 98, 106, 101, 99, 116, 93>>
\* property names and values of the envelopes
KType == <<116, 121, 112, 101>>
KPayload == <<112, 97, 121, 108, 111, 97, 100>>
KResponseRequired == <<114, 101, 115, 112, 111, 110, 115, 101, 82, 101, 113, 117, 105, 114, 101, 100>>
KMessage == <<109, 101, 115, 115, 97, 103, 101>>
KText == <<116, 101, 120, 116>>
TxtMessage == <<109, 101, 115, 115, 97, 103, 101>>
TxtNotification == <<110, 111, 116, 105, 102, 105, 99, 97, 116, 105, 111, 110>>
TxtAck == <<97, 99, 107>>
TxtAckMessage == <<78, 111, 116, 105, 102, 105, 99, 97, 116, 105, 111, 110, 32, 114, 101, 99, 101, 105, 118, 101, 100, 32, 115, 117, 99, 99, 101, 115, 115, 102, 117, 108, 108, 121>>

(***************************************************************************)
(* JavaScript values.                                                      *)
(***************************************************************************)
JSNull == [t |-> "null", v |-> <<>>]
JSUndefined == [t |-> "undefined", v |-> <<>>]
JSStr(s) == [t |-> "string", v |-> s]
JSBytes(b) == [t |-> "bytes", v |-> b]
JSBool(b) == [t |-> "boolean", v |-> IF b THEN <<1>> ELSE <<0>>]
JSObj(props) == [t |-> "object", v |-> props]
\* The exception a call throws, as a value.
Thrown(name) == [t |-> "throw", v |-> <<name>>]
IsThrown(x) == x.t = "throw"

\* typeof x === 'object' (null included)
TypeofObject(x) == x.t \in {"object", "null", "bytes"}
\* x instanceof Uint8Array
InstanceofUint8Array(x) == x.t = "bytes"
\* obj[key], undefined when the property is absent
Prop(obj, key) ==
    IF obj.t = "object" /\ \E i \in 1..Len(obj.v) : obj.v[i][1] = key
    THEN obj.v[CHOOSE i \in 1..Len(obj.v) : obj.v[i][1] = key][2]
    ELSE JSUndefined
\* ToBoolean(x)
Truthy(x) ==
    CASE x.t \in {"null", "undefined"} -> FALSE
      [] x.t = "string" -> x.v # <<>>
      [] x.t = "boolean" -> x.v = <<1>>
      [] OTHER -> TRUE

(***************************************************************************)
(* Sequences.                                                              *)
(***************************************************************************)
\* Array.prototype.slice / Buffer.prototype.slice(start, end), 0-based, clamped
Slice(s, start, end) ==
    LET e == IF end > Len(s) THEN Len(s) ELSE end
    IN  IF start >= e THEN <<>> ELSE SubSeq(s, start + 1, e)

IsPrefix(p, s) == Len(p) <= Len(s) /\ SubSeq(s, 1, Len(p)) = p

\* String.prototype.indexOf(needle), 1-based here, 0 when absent
IndexOf(s, needle) ==
    LET hits == {i \in 1..(Len(s) - Len(needle) + 1) : SubSeq(s, i, i + Len(needle) - 1) = needle}
    IN  IF hits = {} THEN 0 ELSE CHOOSE i \in hits : \A j \in hits : i <= j

\* String.prototype.includes(needle)
Includes(s, needle) == IndexOf(s, needle) # 0

RECURSIVE Split(_, _)
\* String.prototype.split(sep) for a non-empty separator
Split(s, sep) ==
    LET i == IndexOf(s, sep)
    IN  IF i = 0 THEN <<s>>
        ELSE <<SubSeq(s, 1, i - 1)>> \o Split(SubSeq(s, i + Len(sep), Len(s)), sep)

\* String.prototype.toLowerCase, on the ASCII letters
ToLowerCase(s) == [i \in 1..Len(s) |-> IF s[i] >= 65 /\ s[i] <= 90 THEN s[i] + 32 ELSE s[i]]

RECURSIVE Flatten(_)
\* the concatenation of a sequence of sequences
Flatten(ss) ==
    IF Len(ss) = 0 THEN <<>>
    ELSE IF Len(ss) = 1 THEN ss[1]
    ELSE LET h == Len(ss) \div 2
         IN  Flatten(SubSeq(ss, 1, h)) \o Flatten(SubSeq(ss, h + 1, Len(ss)))

(***************************************************************************)
(* Bit operations on bytes and 32-bit integers.                            *)
(***************************************************************************)
RECURSIVE Pow2(_)
Pow2(n) == IF n = 0 THEN 1 ELSE 2 * Pow2(n - 1)

RECURSIVE XorBits(_, _, _)
XorBits(a, b, n) ==
    IF n = 0 THEN 0
    ELSE (((a % 2) + (b % 2)) % 2) + 2 * XorBits(a \div 2, b \div 2, n - 1)

\* a ^ b on bytes
Xor(a, b) == XorBits(a, b, 8)

\* x >> n for 0 <= x < 2^31 (ToInt32 leaves such an x as it is; a buffer is
\* never longer): the shift count is taken modulo 32
ShiftRight(x, n) == x \div Pow2(n % 32)

(***************************************************************************)
(* UTF-8, as Buffer.prototype.toString() / TextDecoder decode it and       *)
(* Buffer.from(string, 'utf-8') / TextEncoder encode it.  One- and         *)
(* two-byte sequences are decoded; every other byte decodes to U+FFFD (the *)
(* model's inputs hold no three- or four-byte sequence).                   *)
(***************************************************************************)
ReplacementChar == 65533

\* b[i] is the second byte of a two-byte sequence
IsTrailByte(b, i) ==
    i > 1 /\ b[i - 1] >= 194 /\ b[i - 1] <= 223 /\ b[i] >= 128 /\ b[i] <= 191

\* the code point decoded at b[i], which is no trail byte
CodePointAt(b, i) ==
    IF b[i] < 128 THEN b[i]
    ELSE IF i < Len(b) /\ IsTrailByte(b, i + 1) THEN (b[i] - 192) * 64 + (b[i + 1] - 128)
    ELSE ReplacementChar

Utf8Decode(b) ==
    LET starts == SelectSeq([i \in 1..Len(b) |-> i], LAMBDA i : ~IsTrailByte(b, i))
    IN  [k \in 1..Len(starts) |-> CodePointAt(b, starts[k])]

Utf8EncodeCodePoint(c) ==
    IF c < 128 THEN <<c>>
    ELSE IF c < 2048 THEN <<192 + (c \div 64), 128 + (c % 64)>>
    ELSE <<224 + (c \div 4096), 128 + ((c \div 64) % 64), 128 + (c % 64)>>

Utf8Encode(s) == Flatten([i \in 1..Len(s) |-> Utf8EncodeCodePoint(s[i])])

(***************************************************************************)
(* JSON.stringify on strings, booleans, null and objects of them.          *)
(***************************************************************************)
\* the characters of a string literal's body: '"' and '\' are escaped
JsonQuote(s) ==
    Flatten([i \in 1..Len(s) |-> IF s[i] \in {34, 92} THEN <<92, s[i]>> ELSE <<s[i]>>])

RECURSIVE JSONStringify(_)
RECURSIVE JsonProps(_)
JsonProps(props) ==
    IF props = <<>> THEN <<>>
    ELSE <<34>> \o JsonQuote(props[1][1]) \o <<34, 58>> \o JSONStringify(props[1][2])
         \o (IF Len(props) > 1 THEN <<44>> ELSE <<>>) \o JsonProps(Tail(props))

JSONStringify(x) ==
    CASE x.t = "string" -> <<34>> \o JsonQuote(x.v) \o <<34>>
      [] x.t = "boolean" -> IF x.v = <<1>> THEN TxtTrue ELSE TxtFalse
      [] x.t = "null" -> TxtNull
      [] x.t = "object" -> <<123>> \o JsonProps(x.v) \o <<125>>

\* String(x)
StringOf(x) ==
    CASE x.t = "string" -> x.v
      [] x.t = "undefined" -> TxtUndefined
      [] x.t = "null" -> TxtNull
      [] x.t = "boolean" -> IF x.v = <<1>> THEN TxtTrue ELSE TxtFalse
      [] x.t = "object" -> TxtObjectObject

(***************************************************************************)
(* Opcodes and configuration.                                              *)
(***************************************************************************)
OpText == 1
OpBinary == 2
OpClose == 8
OpPing == 9
OpPong == 10

\* options.format
Formats == {"json", "binary"}

(***************************************************************************)
(* CreamSocketServer._encodeFrame(message, opcode = 0x1)                   *)
(***************************************************************************)
\* Buffer.from(message, 'utf-8'): a string is UTF-8 encoded, a Uint8Array is
\* copied, anything else is a TypeError.
BufferFrom(message) ==
    CASE message.t = "string" -> JSBytes(Utf8Encode(message.v))
      [] message.t = "bytes" -> message
      [] OTHER -> Thrown("TypeError")

\* the length bytes pushed after the first byte
LengthBytes(payloadLength) ==
    IF payloadLength < 126 THEN <<payloadLength>>
    ELSE IF payloadLength < 65536
         THEN <<126, ShiftRight(payloadLength, 8) % 256, payloadLength % 256>>
    ELSE <<127>> \o [k \in 1..8 |-> ShiftRight(payloadLength, (8 - k) * 8) % 256]

_encodeFrame(message, opcode) ==
    LET payload == BufferFrom(message)
    IN  IF IsThrown(payload) THEN payload
        ELSE JSBytes(<<128 + opcode>> \o LengthBytes(Len(payload.v)) \o payload.v)

(***************************************************************************)
(* CreamSocketServer._decodeFrame(buffer)                                  *)
(***************************************************************************)
\* readUInt16BE(2) / readBigUInt64BE(2): the big-endian integer of n bytes at
\* offset 2
ReadUIntBE(buffer, n) ==
    LET RECURSIVE Acc(_)
        Acc(k) == IF k = 0 THEN 0 ELSE Acc(k - 1) * 256 + buffer[2 + k]
    IN  Acc(n)

_decodeFrame(buffer) ==
    IF Len(buffer) < 2 THEN Thrown("RangeError")
    ELSE
    LET firstByte == buffer[1]
        secondByte == buffer[2]
        fin == firstByte \div 128
        opcode == firstByte % 16
        masked == secondByte \div 128
        lengthField == secondByte % 128
        ext == IF lengthField = 126 THEN 2 ELSE IF lengthField = 127 THEN 8 ELSE 0
    IN  IF Len(buffer) < 2 + ext THEN Thrown("RangeError")
        ELSE
        LET payloadLength == IF ext = 0 THEN lengthField ELSE ReadUIntBE(buffer, ext)
            keyOffset == 2 + ext
            maskingKey == Slice(buffer, keyOffset, keyOffset + 4)
            offset == IF masked = 1 THEN keyOffset + 4 ELSE keyOffset
            payload == Slice(buffer, offset, offset + payloadLength)
            \* maskingKey[i % 4] is undefined past a short key, and x ^ undefined = x
            keyByte(i) == IF (i % 4) + 1 <= Len(maskingKey) THEN maskingKey[(i % 4) + 1] ELSE 0
            decodedPayload == IF masked = 1
                              THEN [i \in 1..Len(payload) |-> Xor(payload[i], keyByte(i - 1))]
                              ELSE payload
        IN  [t |-> "frame", fin |-> fin, opcode |-> opcode,
             payload |-> JSStr(Utf8Decode(decodedPayload))]

(***************************************************************************)
(* CreamSocketParser.encode(data, opcode = 0x1)                            *)
(***************************************************************************)
\* the payload bytes under this.format
ParserPayload(format, data) ==
    IF format = "json"
    THEN Utf8Encode(IF TypeofObject(data) THEN JSONStringify(data) ELSE StringOf(data))
    ELSE IF InstanceofUint8Array(data) THEN data.v ELSE Utf8Encode(StringOf(data))

ParserLengthBytes(payloadLength) ==
    IF payloadLength < 126 THEN <<payloadLength>>
    ELSE IF payloadLength < 65536
         THEN <<126, ShiftRight(payloadLength, 8) % 256, payloadLength % 256>>
    ELSE <<127>> \o [k \in 1..8 |-> ShiftRight(payloadLength, (8 - k) * 8) % 256]

ParserEncode(format, data, opcode) ==
    LET payload == ParserPayload(format, data)
    IN  JSBytes(<<128 + opcode>> \o ParserLengthBytes(Len(payload)) \o payload)

(***************************************************************************)
(* CreamSocketParser.decode(data), on this.buffer.  The result is the      *)
(* returned value (or the exception thrown) and the buffer left behind.    *)
(***************************************************************************)
\* Envelopes of the protocol.
Envelope(type, payload) == JSObj(<< <<KType, JSStr(type)>>, <<KPayload, payload>> >>)
EnvelopeRR(type, payload) ==
    JSObj(<< <<KType, JSStr(type)>>, <<KPayload, payload>>, <<KResponseRequired, JSBool(TRUE)>> >>)

\* Payloads an application hands to the server or a peer puts in an envelope.
PayloadString == JSStr(<<120>>)
PayloadObject == JSObj(<< <<KText, JSStr(<<120>>)>> >>)
Payloads == {PayloadString, PayloadObject}

\* The values whose JSON texts the model's peers send.
JsonValues ==
    Payloads \cup {Envelope(TxtMessage, p) : p \in Payloads}
             \cup {EnvelopeRR(TxtNotification, p) : p \in Payloads}

\* JSON.parse(text), on the texts JSON.stringify produces for JsonValues; any
\* other text is a SyntaxError.
JSONParse(text) ==
    IF \E x \in JsonValues : JSONStringify(x) = text
    THEN CHOOSE x \in JsonValues : JSONStringify(x) = text
    ELSE Thrown("SyntaxError")

RECURSIVE ParserDecodeLoop(_)
\* the while loop of decode, on the buffer after the append
ParserDecodeLoop(buffer) ==
    IF Len(buffer) = 0 THEN [ret |-> JSNull, buffer |-> buffer]
    ELSE
    LET opcode == buffer[1] % 16
        \* this.buffer[1] is undefined on a one-byte buffer, and undefined & 0x7F = 0
        payloadLength == IF Len(buffer) >= 2 THEN buffer[2] % 128 ELSE 0
    IN  IF payloadLength \in {126, 127}
        \* a Uint8Array has no readUInt16BE / readBigUInt64BE
        THEN [ret |-> Thrown("TypeError"), buffer |-> buffer]
        ELSE IF Len(buffer) < 2 + payloadLength THEN [ret |-> JSNull, buffer |-> buffer]
        ELSE
        LET payload == Slice(buffer, 2, 2 + payloadLength)
            rest == Slice(buffer, 2 + payloadLength, Len(buffer))
        IN  IF opcode = OpText
            THEN [ret |-> JSONParse(Utf8Decode(payload)), buffer |-> rest]
            ELSE IF opcode = OpBinary THEN [ret |-> JSBytes(payload), buffer |-> rest]
            ELSE ParserDecodeLoop(rest)

\* a decode that takes the bytes of whatever it is given into the buffer
ParserDecodeOfAnything(buffer, data) == ParserDecodeLoop(buffer \o Utf8Encode(data.v))

ParserDecode(buffer, data) ==
    IF ~InstanceofUint8Array(data) THEN [ret |-> JSNull, buffer |-> buffer]
    ELSE ParserDecodeLoop(buffer \o data.v)

(***************************************************************************)
(* What peers send.                                                        *)
(***************************************************************************)
\* A client's masking key.
MaskKey == <<1, 2, 3, 4>>

\* A complete client frame with a payload shorter than 126 bytes.
MaskedFrame(opcode, payload) ==
    <<128 + opcode, 128 + Len(payload)>> \o MaskKey
        \o [i \in 1..Len(payload) |-> Xor(payload[i], MaskKey[((i - 1) % 4) + 1])]
UnmaskedFrame(opcode, payload) == <<128 + opcode, Len(payload)>> \o payload

\* 'GET / HTTP/1.1\r\nUpgrade: websocket\r\nSec-WebSocket-Key: k\r\n\r\n'
ReqUpgrade == <<71, 69, 84, 32, 47, 32, 72, 84, 84, 80, 47, 49, 46, 49, 13, 10, 85, 112, 103, 114, 97, 100, 101, 58, 32, 119, 101, 98, 115, 111, 99, 107, 101, 116, 13, 10, 83, 101, 99, 45, 87, 101, 98, 83, 111, 99, 107, 101, 116, 45, 75, 101, 121, 58, 32, 107, 13, 10, 13, 10>>
\* 'GET / HTTP/1.1\r\nUpgrade: websocket\r\n\r\n'
ReqNoKey == <<71, 69, 84, 32, 47, 32, 72, 84, 84, 80, 47, 49, 46, 49, 13, 10, 85, 112, 103, 114, 97, 100, 101, 58, 32, 119, 101, 98, 115, 111, 99, 107, 101, 116, 13, 10, 13, 10>>
\* 'GET / HTTP/1.1\r\nHost: h\r\n\r\n'
ReqPlain == <<71, 69, 84, 32, 47, 32, 72, 84, 84, 80, 47, 49, 46, 49, 13, 10, 72, 111, 115, 116, 58, 32, 104, 13, 10, 13, 10>>

EnvMessage == Envelope(TxtMessage, PayloadString)
EnvNotification == EnvelopeRR(TxtNotification, PayloadString)
FrameMessage == MaskedFrame(OpText, Utf8Encode(JSONStringify(EnvMessage)))
FrameNotification == MaskedFrame(OpBinary, Utf8Encode(JSONStringify(EnvNotification)))
FrameClose == MaskedFrame(OpClose, <<>>)
FramePing == MaskedFrame(OpPing, <<112>>)
FramePong == MaskedFrame(OpPong, <<>>)
FrameReserved == MaskedFrame(3, <<>>)
\* a complete text frame whose payload, '{', is no JSON text
FrameUndecodable == MaskedFrame(OpText, <<123>>)
\* the two envelopes again, each under the other opcode
FrameMessageAsBinary == MaskedFrame(OpBinary, Utf8Encode(JSONStringify(EnvMessage)))
FrameNotificationAsText == MaskedFrame(OpText, Utf8Encode(JSONStringify(EnvNotification)))
TwoFrames == FrameMessage \o FrameNotification

\* Proper prefixes of valid frames: one byte; a header announcing a 16-bit
\* length without the length bytes; a header with half its masking key; a
\* header and key with fewer payload bytes than announced.
PrefixOneByte == <<129>>
PrefixNoLength == <<129, 254>>
PrefixHalfKey == SubSeq(FrameMessage, 1, 4)
PrefixShortPayload == SubSeq(FrameMessage, 1, 10)
PartialFrames == {PrefixOneByte, PrefixNoLength, PrefixHalfKey, PrefixShortPayload}

Requests == {ReqUpgrade, ReqNoKey, ReqPlain}
WholeFrames ==
    {FrameMessage, FrameNotification, FrameClose, FramePing, FramePong, FrameReserved,
     FrameUndecodable, FrameMessageAsBinary, FrameNotificationAsText}
Chunks == Requests \cup WholeFrames \cup {TwoFrames} \cup PartialFrames

\* Byte streams made of complete frames (a text frame 'A', then an empty
\* pong), delivered in every segmentation.
StreamOne == UnmaskedFrame(OpText, <<65>>)
StreamTwo == StreamOne \o UnmaskedFrame(OpPong, <<>>)
Streams == {StreamOne, StreamTwo}
Segments == {SubSeq(StreamTwo, i, j) : i \in 1..Len(StreamTwo), j \in 1..Len(StreamTwo)} \ {<<>>}

\* Every chunk a peer sends, with what the code computes from it: the values
\* depend on the chunk alone and are computed once.
Inputs == Chunks \cup Segments
DataToString == [data \in Inputs |-> Utf8Decode(data)]
\* a decoding that reads every opcode as a ping
DecodedAsPing ==
    [data \in Inputs |-> IF IsThrown(_decodeFrame(data)) THEN _decodeFrame(data)
                         ELSE [_decodeFrame(data) EXCEPT !.opcode = OpPing]]
DecodedFrame == [data \in Inputs |-> _decodeFrame(data)]

(***************************************************************************)
(* State.                                                                  *)
(***************************************************************************)
VARIABLES
    alive,          \* the process has not died of an uncaught exception
    srv,            \* this.server: "new", "listening" or "stopped"
    closeCbs,       \* callbacks of server.close() waiting for the server's 'close'
    format,         \* this.parser.format
    parserBuffer,   \* this.parser.buffer (one parser for the whole server)
    clients,        \* this.clients, a Set: its members in insertion order
    sock,           \* per socket: "unborn", "live", "ended" (socket.end() was
                    \* called), "down" (torn down by the transport) or
                    \* "destroyed" (socket.destroy() was called)
    closeEvt,       \* per socket: its 'close' event is due
    handlers,       \* per socket: "none", "once" (the first-chunk listener is
                    \* armed) or "frames" (the 'data' and 'close' listeners of
                    \* _performHandshake are attached)
    hist,           \* per socket: how many 101 responses, 'connection' and
                    \* 'disconnection' events it got
    published,      \* events emitted by the last step, in order
    written,        \* per socket: the socket.write() calls of the last step
    lastOp,         \* the last step: operation, socket, argument, the socket's
                    \* state and this.clients before it, the frames it
                    \* dispatched, whether it threw
    tracing,        \* whether rx and dispatched are kept
    rx,             \* per socket: the bytes _handleFrame has received
    dispatched      \* per socket: the frames _handleFrame has dispatched

vars == <<alive, srv, closeCbs, format, parserBuffer, clients, sock, closeEvt, handlers,
          hist, published, written, lastOp, tracing, rx, dispatched>>
trace == <<tracing, rx, dispatched>>

\* The connection state machine of a socket, as the server has driven it: a
\* socket the transport tore down is Closed once its 'close' event was handled.
ConnState(c) ==
    IF sock[c] = "unborn" THEN "None"
    ELSE IF sock[c] = "destroyed" \/ (sock[c] = "down" /\ ~closeEvt[c]) THEN "Closed"
    ELSE IF handlers[c] = "once" THEN "AwaitingHandshake"
    ELSE IF sock[c] \in {"ended", "down"} THEN "Closing"
    ELSE "Open"

Event(ev, conn, payload) == [ev |-> ev, conn |-> conn, payload |-> payload]
Op(op, conn, arg, frames, threw) ==
    [op |-> op, conn |-> conn, arg |-> arg,
     was |-> IF conn \in Conns THEN ConnState(conn) ELSE "None",
     before |-> clients, ended |-> {c \in Conns : sock[c] = "ended"},
     frames |-> frames, threw |-> threw]
NoWrites == [c \in Conns |-> <<>>]
NoHist == [resp101 |-> 0, connection |-> 0, disconnection |-> 0]

Members(cl) == {cl[i] : i \in 1..Len(cl)}
\* a delete that forgets nothing
SetDeleteNothing(cl, c) == cl
\* Set.prototype.add / delete on the insertion-ordered members
SetAdd(cl, c) == IF c \in Members(cl) THEN cl ELSE Append(cl, c)
SetDelete(cl, c) == SelectSeq(cl, LAMBDA d : d # c)

Constructed ==
    /\ alive = TRUE
    /\ srv = "new"
    /\ closeCbs = 0
    /\ format \in Formats
    /\ parserBuffer = <<>>
    /\ clients = <<>>
    /\ sock = [c \in Conns |-> "unborn"]
    /\ closeEvt = [c \in Conns |-> FALSE]
    /\ handlers = [c \in Conns |-> "none"]
    /\ hist = [c \in Conns |-> NoHist]
    /\ published = <<>>
    /\ written = NoWrites
    /\ lastOp = [op |-> "init", conn |-> 0, arg |-> <<>>, was |-> "None", before |-> <<>>,
                 ended |-> {}, frames |-> <<>>, threw |-> FALSE]
    /\ rx = [c \in Conns |-> <<>>]
    /\ dispatched = [c \in Conns |-> <<>>]

Init == Constructed /\ tracing = FALSE

(***************************************************************************)
(* socket.write(data): a live socket takes the data; on a socket that was  *)
(* ended the write fails and the stream is destroyed with the error (its   *)
(* 'error' listener logs, its 'close' event follows); on a socket already  *)
(* torn down the write fails silently.  No write throws.                   *)
(***************************************************************************)
WriteOk(c) == sock[c] = "live"
\* a write that reaches every socket, whatever the targets
WrittenToAll(targets, kind, data) ==
    [c \in Conns |-> <<[kind |-> kind, data |-> data, ok |-> WriteOk(c)]>>]
WrittenBy(targets, kind, data) ==
    [c \in Conns |-> IF c \in targets
                     THEN <<[kind |-> kind, data |-> data, ok |-> WriteOk(c)]>>
                     ELSE <<>>]
SockAfterWrite(targets) ==
    [c \in Conns |-> IF c \in targets /\ sock[c] = "ended" THEN "down" ELSE sock[c]]
CloseEvtAfterWrite(targets) ==
    [c \in Conns |-> IF c \in targets /\ sock[c] = "ended" THEN TRUE ELSE closeEvt[c]]

(***************************************************************************)
(* start(), and the listening socket accepting a connection.               *)
(***************************************************************************)
Start ==
    /\ alive /\ srv = "new"
    /\ srv' = "listening"
    /\ published' = <<Event("listening", 0, JSNull)>>
    /\ written' = NoWrites
    /\ lastOp' = Op("start", 0, <<>>, <<>>, FALSE)
    /\ UNCHANGED <<alive, closeCbs, format, parserBuffer, clients, sock, closeEvt, handlers,
                   hist, trace>>

_handleConnection(socket) ==
    /\ sock' = [sock EXCEPT ![socket] = "live"]
    /\ handlers' = [handlers EXCEPT ![socket] = "once"]
    /\ published' = <<>>
    /\ written' = NoWrites
    /\ lastOp' = Op("accept", socket, <<>>, <<>>, FALSE)
    /\ UNCHANGED <<alive, srv, closeCbs, format, parserBuffer, clients, closeEvt, hist, trace>>

\* Sockets are numbered in the order they are accepted.
Accept(c) ==
    /\ alive /\ srv = "listening"
    /\ sock[c] = "unborn"
    /\ \A d \in Conns : d < c => sock[d] # "unborn"
    /\ _handleConnection(c)

(***************************************************************************)
(* The handshake.                                                          *)
(***************************************************************************)
\* a test that takes every first chunk for an upgrade request
AnyRequestIsWebSocket(request) == TRUE
_isWebSocketRequest(request) == Includes(request, UpgradeToken)

RECURSIVE HeadersOf(_)
\* the forEach of _parseHeaders: a later line overwrites an earlier one
HeadersOf(lines) ==
    IF lines = <<>> THEN <<>>
    ELSE LET line == lines[Len(lines)]
             parts == Split(line, ColonSpace)
             key == parts[1]
             value == IF Len(parts) >= 2 THEN parts[2] ELSE <<>>
             before == HeadersOf(SubSeq(lines, 1, Len(lines) - 1))
             entry == <<ToLowerCase(key), JSStr(value)>>
         IN  IF key # <<>> /\ value # <<>>
             THEN IF \E i \in 1..Len(before) : before[i][1] = entry[1]
                  THEN [i \in 1..Len(before) |->
                            IF before[i][1] = entry[1] THEN entry ELSE before[i]]
                  ELSE Append(before, entry)
             ELSE before

_parseHeaders(request) == JSObj(HeadersOf(Split(request, CRLF)))

\* The digest is not computed: the value stands for base64(sha1(text)) by
\* naming the text that is hashed.
_generateAcceptValue(key) == StringOf(key) \o AcceptGuid

\* the response written, named by the text its Sec-WebSocket-Accept hashes
HandshakeResponse(request) ==
    _generateAcceptValue(Prop(_parseHeaders(request), SecWebSocketKeyName))

\* the two, for the text of every chunk
RequestTexts == {DataToString[data] : data \in Inputs}
IsUpgrade == [request \in RequestTexts |-> _isWebSocketRequest(request)]
ResponseTo == [request \in RequestTexts |-> HandshakeResponse(request)]

_performHandshake(socket, request) ==
    /\ written' = WrittenBy({socket}, "http101", ResponseTo[request])
    /\ sock' = SockAfterWrite({socket})
    /\ closeEvt' = CloseEvtAfterWrite({socket})
    /\ clients' = SetAdd(clients, socket)
    /\ published' = <<Event("connection", socket, JSNull)>>
    /\ handlers' = [handlers EXCEPT ![socket] = "frames"]
    /\ hist' = [hist EXCEPT ![socket].resp101 = @ + 1, ![socket].connection = @ + 1]
    /\ UNCHANGED <<alive, srv, closeCbs, format, parserBuffer>>

\* socket.destroy() on a socket whose first chunk is no WebSocket request
RejectRequest(socket) ==
    /\ sock' = [sock EXCEPT ![socket] = "destroyed"]
    /\ closeEvt' = [closeEvt EXCEPT ![socket] = TRUE]
    /\ handlers' = [handlers EXCEPT ![socket] = "none"]
    /\ published' = <<>>
    /\ written' = NoWrites
    /\ UNCHANGED <<alive, srv, closeCbs, format, parserBuffer, clients, hist>>

\* the listener of socket.once('data') in _handleConnection
OnFirstData(socket, data) ==
    LET request == DataToString[data]
    IN  /\ IF IsUpgrade[request]
           THEN _performHandshake(socket, request)
           ELSE RejectRequest(socket)
        /\ lastOp' = Op("data", socket, data, <<>>, FALSE)
        /\ UNCHANGED trace

(***************************************************************************)
(* Frames.                                                                 *)
(***************************************************************************)
\* the frame _sendPong writes
PongFrame(fmt, payload) == _encodeFrame(ParserEncode(fmt, payload, OpText), OpPong)

\* An exception thrown inside a 'data' listener is caught by nobody: the
\* process dies.
Crash(socket, data, frames) ==
    /\ alive' = FALSE
    /\ published' = <<>>
    /\ written' = NoWrites
    /\ lastOp' = Op("data", socket, data, frames, TRUE)
    /\ UNCHANGED <<srv, closeCbs, format, clients, sock, closeEvt, handlers, hist>>

\* the event _handleFrame emits for a text or a binary frame
DataEvent(socket, opcode, decodedPayload) ==
    <<Event(IF opcode = OpText THEN "message" ELSE "notification", socket, decodedPayload)>>

_handleFrame(socket, data) ==
    LET frame == DecodedFrame[data]
    IN  IF IsThrown(frame)
        THEN Crash(socket, data, <<>>) /\ UNCHANGED parserBuffer
        ELSE IF frame.opcode \in {OpText, OpBinary}
        THEN LET dec == ParserDecode(parserBuffer, frame.payload)
             IN  /\ parserBuffer' = dec.buffer
                 /\ IF IsThrown(dec.ret)
                    THEN Crash(socket, data, <<frame>>)
                    ELSE /\ published' = DataEvent(socket, frame.opcode, dec.ret)
                         /\ written' = NoWrites
                         /\ lastOp' = Op("data", socket, data, <<frame>>, FALSE)
                         /\ UNCHANGED <<alive, srv, closeCbs, format, clients, sock, closeEvt,
                                        handlers, hist>>
        ELSE IF frame.opcode = OpClose
        THEN /\ sock' = [sock EXCEPT ![socket] = "ended"]
             /\ published' = <<>>
             /\ written' = NoWrites
             /\ lastOp' = Op("data", socket, data, <<frame>>, FALSE)
             /\ UNCHANGED <<alive, srv, closeCbs, format, parserBuffer, clients, closeEvt,
                            handlers, hist>>
        ELSE IF frame.opcode = OpPing
        THEN /\ written' = WrittenBy({socket}, "frame", PongFrame(format, frame.payload).v)
             /\ sock' = SockAfterWrite({socket})
             /\ closeEvt' = CloseEvtAfterWrite({socket})
             /\ published' = <<>>
             /\ lastOp' = Op("data", socket, data, <<frame>>, FALSE)
             /\ UNCHANGED <<alive, srv, closeCbs, format, parserBuffer, clients, handlers, hist>>
        ELSE /\ published' = <<>>
             /\ written' = NoWrites
             /\ lastOp' = Op("data", socket, data, <<frame>>, FALSE)
             /\ UNCHANGED <<alive, srv, closeCbs, format, parserBuffer, clients, sock, closeEvt,
                            handlers, hist>>

\* the bytes _handleFrame was given and the frames it dispatched, when kept
Traced(socket, data) ==
    /\ tracing' = tracing
    /\ rx' = IF tracing THEN [rx EXCEPT ![socket] = @ \o data] ELSE rx
    /\ dispatched' = IF tracing THEN [dispatched EXCEPT ![socket] = @ \o lastOp'.frames]
                     ELSE dispatched

\* a first-chunk listener attached with on() instead of once()
OnDataOfEveryChunk(socket, data) ==
    /\ alive
    /\ sock[socket] \in {"live", "ended"}
    /\ handlers[socket] \in {"once", "frames"}
    /\ IF handlers[socket] = "once" \/ IsUpgrade[DataToString[data]]
       THEN OnFirstData(socket, data)
       ELSE _handleFrame(socket, data) /\ Traced(socket, data)

\* A 'data' event of a socket: the first goes to the once-listener, the later
\* ones to _handleFrame.  A socket that was ended still reads.
OnData(socket, data) ==
    /\ alive
    /\ sock[socket] \in {"live", "ended"}
    /\ handlers[socket] \in {"once", "frames"}
    /\ IF handlers[socket] = "once"
       THEN OnFirstData(socket, data)
       ELSE _handleFrame(socket, data) /\ Traced(socket, data)

(***************************************************************************)
(* Teardown.                                                               *)
(***************************************************************************)
\* The transport tears a socket down (the peer closes or resets it, or an I/O
\* error): the 'error' listener of _handleConnection only logs; the socket's
\* 'close' event is due.
SocketDown(c) ==
    /\ alive
    /\ sock[c] \in {"live", "ended"}
    /\ sock' = [sock EXCEPT ![c] = "down"]
    /\ closeEvt' = [closeEvt EXCEPT ![c] = TRUE]
    /\ published' = <<>>
    /\ written' = NoWrites
    /\ lastOp' = Op("socketDown", c, <<>>, <<>>, FALSE)
    /\ UNCHANGED <<alive, srv, closeCbs, format, parserBuffer, clients, handlers, hist, trace>>

\* a 'close' listener attached to every accepted socket, handshake or not
OnCloseOfAnySocket(c) ==
    /\ alive
    /\ closeEvt[c]
    /\ closeEvt' = [closeEvt EXCEPT ![c] = FALSE]
    /\ clients' = SetDelete(clients, c)
    /\ published' = <<Event("disconnection", c, JSNull)>>
    /\ hist' = [hist EXCEPT ![c].disconnection = @ + 1]
    /\ written' = NoWrites
    /\ lastOp' = Op("close", c, <<>>, <<>>, FALSE)
    /\ UNCHANGED <<alive, srv, closeCbs, format, parserBuffer, sock, handlers, trace>>

\* The 'close' event of a socket: the listener _performHandshake attached, if
\* the handshake was made.
OnClose(c) ==
    /\ alive
    /\ closeEvt[c]
    /\ closeEvt' = [closeEvt EXCEPT ![c] = FALSE]
    /\ IF handlers[c] = "frames"
       THEN /\ clients' = SetDelete(clients, c)
            /\ published' = <<Event("disconnection", c, JSNull)>>
            /\ hist' = [hist EXCEPT ![c].disconnection = @ + 1]
       ELSE /\ published' = <<>>
            /\ UNCHANGED <<clients, hist>>
    /\ written' = NoWrites
    /\ lastOp' = Op("close", c, <<>>, <<>>, FALSE)
    /\ UNCHANGED <<alive, srv, closeCbs, format, parserBuffer, sock, handlers, trace>>

\* a stop() that forgets the clients without destroying their sockets
StopClearsOnly ==
    /\ alive /\ srv = "listening"
    /\ srv' = "stopped"
    /\ closeCbs' = closeCbs + 1
    /\ clients' = <<>>
    /\ published' = <<>>
    /\ written' = NoWrites
    /\ lastOp' = Op("stop", 0, <<>>, <<>>, FALSE)
    /\ UNCHANGED <<alive, format, parserBuffer, sock, closeEvt, handlers, hist, trace>>

\* stop(): close the listening socket, destroy and forget every client.
Stop ==
    /\ alive /\ srv = "listening"
    /\ srv' = "stopped"
    /\ closeCbs' = closeCbs + 1
    /\ sock' = [c \in Conns |-> IF c \in Members(clients) THEN "destroyed" ELSE sock[c]]
    /\ closeEvt' = [c \in Conns |-> IF c \in Members(clients) /\ sock[c] \in {"live", "ended"}
                                    THEN TRUE ELSE closeEvt[c]]
    /\ clients' = <<>>
    /\ published' = <<>>
    /\ written' = NoWrites
    /\ lastOp' = Op("stop", 0, <<>>, <<>>, FALSE)
    /\ UNCHANGED <<alive, format, parserBuffer, handlers, hist, trace>>

\* The listening socket emits 'close' once it is closed and every socket it
\* accepted has closed: the callbacks given to server.close() run.
ServerClosed ==
    /\ alive /\ srv = "stopped" /\ closeCbs > 0
    /\ \A c \in Conns : sock[c] = "unborn" \/ (sock[c] \in {"down", "destroyed"} /\ ~closeEvt[c])
    /\ closeCbs' = 0
    /\ published' = [i \in 1..closeCbs |-> Event("close", 0, JSNull)]
    /\ written' = NoWrites
    /\ lastOp' = Op("serverClosed", 0, <<>>, <<>>, FALSE)
    /\ UNCHANGED <<alive, srv, format, parserBuffer, clients, sock, closeEvt, handlers, hist,
                   trace>>

(***************************************************************************)
(* Sending.                                                                *)
(***************************************************************************)
SendMessageFrame(message) == _encodeFrame(message, OpText)
SendNotificationFrame(fmt, notification) ==
    _encodeFrame(ParserEncode(fmt, notification, OpText), OpBinary)
BroadcastFrame(fmt, message) == _encodeFrame(ParserEncode(fmt, message, OpText), OpText)
BroadcastNotificationFrame(fmt, notification) ==
    _encodeFrame(ParserEncode(fmt, notification, OpText), OpBinary)

\* a loop that a failing write aborts
LoopUntilFailure(cl) ==
    IF \E i \in 1..Len(cl) : ~WriteOk(cl[i])
    THEN SubSeq(cl, 1, CHOOSE i \in 1..Len(cl) : ~WriteOk(cl[i]) /\ \A j \in 1..(i - 1) : WriteOk(cl[j]))
    ELSE cl
\* the clients the for-of loop of a broadcast writes to, in its order
LoopTargets(cl) == cl

\* socket.write(frame) on each of targets; a frame that could not be built
\* is an exception thrown to the caller, and nothing is written
WriteFrame(op, conn, arg, targets, frame) ==
    /\ IF IsThrown(frame)
       THEN /\ written' = NoWrites
            /\ UNCHANGED <<sock, closeEvt>>
       ELSE /\ written' = WrittenBy(targets, "frame", frame.v)
            /\ sock' = SockAfterWrite(targets)
            /\ closeEvt' = CloseEvtAfterWrite(targets)
    /\ published' = <<>>
    /\ lastOp' = Op(op, conn, arg, <<>>, IsThrown(frame))
    /\ UNCHANGED <<alive, srv, closeCbs, format, parserBuffer, clients, handlers, hist, trace>>

\* The application holds the sockets its 'connection' listener was given.
sendMessage(socket, message) ==
    /\ alive /\ hist[socket].connection > 0
    /\ WriteFrame("sendMessage", socket, message, {socket}, SendMessageFrame(message))

sendNotification(socket, notification) ==
    /\ alive /\ hist[socket].connection > 0
    /\ WriteFrame("sendNotification", socket, notification, {socket},
                  SendNotificationFrame(format, notification))

broadcast(message) ==
    /\ alive
    /\ WriteFrame("broadcast", 0, message, Members(LoopTargets(clients)),
                  BroadcastFrame(format, message))

broadcastNotification(notification) ==
    /\ alive
    /\ WriteFrame("broadcastNotification", 0, notification, Members(LoopTargets(clients)),
                  BroadcastNotificationFrame(format, notification))

(***************************************************************************)
(* The server with its peers and its application.                          *)
(***************************************************************************)
Data(c, chunk) == ~tracing /\ OnData(c, chunk)

Next ==
    \/ Start
    \/ Stop
    \/ ServerClosed
    \/ \E c \in Conns : Accept(c)
    \/ \E c \in Conns, chunk \in Chunks : Data(c, chunk)
    \/ \E c \in Conns : SocketDown(c)
    \/ \E c \in Conns : OnClose(c)
    \/ \E c \in Conns, p \in Payloads : sendMessage(c, p)
    \/ \E c \in Conns, p \in Payloads : sendNotification(c, p)
    \/ \E p \in Payloads : broadcast(p)
    \/ \E p \in Payloads : broadcastNotification(p)

Spec == Init /\ [][Next]_vars

(***************************************************************************)
(* The server with peers that open a connection and send a stream of       *)
(* complete frames, cut into chunks in every way.                          *)
(***************************************************************************)
InitStream == Constructed /\ tracing = TRUE

Upgrade(c) == tracing /\ handlers[c] = "once" /\ OnData(c, ReqUpgrade)

Segment(c, chunk) ==
    /\ tracing /\ handlers[c] = "frames"
    /\ \E b \in Streams : IsPrefix(rx[c] \o chunk, b)
    /\ OnData(c, chunk)

NextStream ==
    \/ Start
    \/ \E c \in Conns : Accept(c)
    \/ \E c \in Conns : Upgrade(c)
    \/ \E c \in Conns, chunk \in Segments : Segment(c, chunk)

SpecStream == InitStream /\ [][NextStream]_vars

(***************************************************************************)
(* Receiving: the claims about frame reassembly.                           *)
(***************************************************************************)
\* opcode and payload of each frame of a sequence of dispatched frames
FrameViews(frames) ==
    [i \in 1..Len(frames) |-> [opcode |-> frames[i].opcode, payload |-> frames[i].payload]]

\* C1: incremental decode equivalence.  Whenever two connections have
\* received the same stream of complete frames, however each was cut into
\* chunks (one of them may have got it in a single read), the same frames
\* (opcodes and payloads, in order) have been dispatched on both.
C1_IncrementalDecodeEquivalence ==
    \A c, d \in Conns :
        (rx[c] \in Streams /\ rx[d] = rx[c])
            => FrameViews(dispatched[c]) = FrameViews(dispatched[d])

\* Reads made of complete frames back to back, as the sequence of their frames.
Reads == {<<f>> : f \in WholeFrames} \cup {<<FrameMessage, FrameNotification>>}

\* C2: a read on an Open connection that holds k complete frames back to back
\* dispatches all k of them, in their byte order: the frames dispatched by the
\* step are the frames of the read, each as it decodes on its own.
C2_EveryFrameOfAReadDispatched ==
    (lastOp.op = "data" /\ lastOp.was = "Open")
        => \A r \in Reads :
               lastOp.arg = Flatten(r)
                   => /\ ~lastOp.threw
                      /\ lastOp.frames = [i \in 1..Len(r) |-> DecodedFrame[r[i]]]

\* C3: partial-frame stall.  A read on an Open connection that is a proper
\* prefix of a valid frame throws nothing, dispatches no frame and publishes
\* no event, and the server goes on.
C3_PartialFrameStalls ==
    (lastOp.op = "data" /\ lastOp.was = "Open" /\ lastOp.arg \in PartialFrames)
        => /\ alive
           /\ ~lastOp.threw
           /\ lastOp.frames = <<>>
           /\ published = <<>>

(***************************************************************************)
(* The registry and the handshake.                                         *)
(***************************************************************************)
\* C4: every connection in the registry has made its handshake (it got the
\* 101 response and its 'connection' event) and is Open or Closing, never
\* Closed; every Open connection is in the registry; a connection enters the
\* registry only in the step that takes it from AwaitingHandshake to Open, and
\* one that left it is Closed.
C4_RegistryHoldsOpenConnections ==
    /\ \A c \in Members(clients) :
           /\ hist[c].resp101 = 1 /\ hist[c].connection = 1
           /\ ConnState(c) \in {"Open", "Closing"}
    /\ \A c \in Conns : ConnState(c) = "Open" => c \in Members(clients)
    /\ \A c \in Members(clients) \ Members(lastOp.before) :
           /\ lastOp.op = "data" /\ lastOp.conn = c
           /\ lastOp.was = "AwaitingHandshake"
           /\ ConnState(c) = "Open"
    /\ \A c \in Members(lastOp.before) \ Members(clients) : ConnState(c) = "Closed"

\* C4's case: the 'close' event of a registered connection has just removed
\* it, while another connection stays registered.
C4_Witness ==
    /\ lastOp.op = "close"
    /\ lastOp.conn \in Members(lastOp.before) \ Members(clients)
    /\ clients # <<>>

\* C5: a first chunk without the token 'Upgrade: websocket' gets the socket
\* destroyed at once: the connection is Closed, is not in the registry, got no
\* write and no event; and a connection rejected this way never is in the
\* registry, never got a 101 response nor a 'connection' event.
C5_NonUpgradeFirstChunkRejected ==
    /\ (/\ lastOp.op = "data" /\ lastOp.was = "AwaitingHandshake"
        /\ ~Includes(DataToString[lastOp.arg], UpgradeToken))
           => /\ sock[lastOp.conn] = "destroyed"
              /\ ConnState(lastOp.conn) = "Closed"
              /\ handlers[lastOp.conn] = "none"
              /\ written[lastOp.conn] = <<>>
              /\ published = <<>>
    /\ \A c \in Conns :
           (handlers[c] = "none" /\ sock[c] # "unborn")
               => /\ sock[c] = "destroyed"
                  /\ c \notin Members(clients)
                  /\ hist[c] = NoHist

\* C5's case: a plain HTTP request was the first chunk of a connection.
C5_Witness ==
    /\ lastOp.op = "data" /\ lastOp.was = "AwaitingHandshake"
    /\ lastOp.arg = ReqPlain
    /\ sock[lastOp.conn] = "destroyed"

\* the first chunks that hold the upgrade token and no sec-websocket-key header
KeylessRequests ==
    {data \in Chunks :
        /\ Includes(DataToString[data], UpgradeToken)
        /\ Prop(_parseHeaders(DataToString[data]), SecWebSocketKeyName) = JSUndefined}

\* C6: a first chunk with the upgrade token and no sec-websocket-key header
\* fails the handshake: the connection is Closed, not registered, and got no
\* 101 response and no 'connection' event.
C6_MissingKeyFailsHandshake ==
    (lastOp.op = "data" /\ lastOp.was = "AwaitingHandshake" /\ lastOp.arg \in KeylessRequests)
        => /\ ConnState(lastOp.conn) = "Closed"
           /\ lastOp.conn \notin Members(clients)
           /\ written[lastOp.conn] = <<>>
           /\ hist[lastOp.conn].resp101 = 0
           /\ hist[lastOp.conn].connection = 0
           /\ published = <<>>

(***************************************************************************)
(* Envelopes.                                                              *)
(***************************************************************************)
\* the acknowledgment of handleNotification, as parser.encode frames it
AckEnvelope == JSObj(<< <<KType, JSStr(TxtAck)>>, <<KMessage, JSStr(TxtAckMessage)>> >>)
AckFrame(fmt) == ParserEncode(fmt, AckEnvelope, OpText)

\* C7: envelope dispatch.  On an Open connection under the json format, a
\* frame carrying the envelope {type: 'message', payload: 'x'} publishes
\* exactly one 'message' event with payload 'x' and writes nothing; a frame
\* carrying {type: 'notification', payload: 'x', responseRequired: true}
\* publishes exactly one 'notification' event with payload 'x' and writes
\* exactly one ack frame to that connection.
C7_EnvelopeDispatch ==
    (lastOp.op = "data" /\ lastOp.was = "Open" /\ format = "json")
        => /\ lastOp.arg = FrameMessage
               => /\ published = <<Event("message", lastOp.conn, PayloadString)>>
                  /\ written = NoWrites
           /\ lastOp.arg = FrameNotification
               => /\ published = <<Event("notification", lastOp.conn, PayloadString)>>
                  /\ written = [NoWrites EXCEPT ![lastOp.conn] =
                                    <<[kind |-> "frame", data |-> AckFrame(format).v, ok |-> TRUE]>>]

(***************************************************************************)
(* Sending.                                                                *)
(***************************************************************************)
BroadcastOps == {"broadcast", "broadcastNotification"}

\* C8: broadcast fan-out.  A broadcast (of a message or of a notification)
\* throws nothing, makes exactly one write to every connection that is in the
\* registry when it is called, all with the same bytes, makes no write to any
\* other connection, and leaves the registry as it was.
C8_BroadcastFanOut ==
    lastOp.op \in BroadcastOps
        => /\ ~lastOp.threw
           /\ \A c \in Members(lastOp.before) : Len(written[c]) = 1 /\ written[c][1].kind = "frame"
           /\ \A c, d \in Members(lastOp.before) : written[c][1].data = written[d][1].data
           /\ \A c \in Conns \ Members(lastOp.before) : written[c] = <<>>
           /\ clients = lastOp.before

\* C8's case: a broadcast with one connection in the registry and another,
\* accepted, outside it.
C8_Witness ==
    /\ lastOp.op = "broadcast"
    /\ Len(lastOp.before) = 1
    /\ \E c \in Conns \ Members(lastOp.before) : sock[c] = "live"
    /\ written[lastOp.before[1]] # <<>>

\* C9: broadcast failure isolation.  When a write of a broadcast fails, every
\* other registered connection still gets its write (and the write to a live
\* socket succeeds), the call throws nothing, and the failing connection is
\* still in the registry after the call.
C9_BroadcastFailureIsolation ==
    (/\ lastOp.op \in BroadcastOps
     /\ \E c \in Members(lastOp.before) : written[c] # <<>> /\ ~written[c][1].ok)
        => /\ ~lastOp.threw /\ alive
           /\ \A d \in Members(lastOp.before) :
                  /\ Len(written[d]) = 1
                  /\ sock[d] = "live" => written[d][1].ok
           /\ clients = lastOp.before

\* C9's case: a broadcast whose write to the first connection of the registry
\* failed and whose write to a later one succeeded.
C9_Witness ==
    /\ lastOp.op \in BroadcastOps
    /\ Len(lastOp.before) = 2
    /\ written[lastOp.before[1]] # <<>> /\ ~written[lastOp.before[1]][1].ok
    /\ written[lastOp.before[2]] # <<>> /\ written[lastOp.before[2]][1].ok

\* one frame, FIN set, opcode 0x1, unmasked, holding the JSON text of the
\* envelope {type: 'message', payload}
MessageEnvelopeFrame(payload) ==
    UnmaskedFrame(OpText, Utf8Encode(JSONStringify(Envelope(TxtMessage, payload))))

\* C10: outbound message pipeline.  sendMessage(conn, payload) and
\* broadcast(payload) throw nothing and write, to each connection they write
\* to, exactly one frame (FIN, opcode 0x1, unmasked) whose payload is the
\* serialized envelope {type: 'message', payload}, for a string payload and
\* for an object payload; sendMessage writes to its connection.
C10_OutboundMessagePipeline ==
    lastOp.op \in {"sendMessage", "broadcast"}
        => /\ ~lastOp.threw
           /\ lastOp.op = "sendMessage" => written[lastOp.conn] # <<>>
           /\ \A c \in Conns :
                  written[c] # <<>>
                      => /\ Len(written[c]) = 1
                         /\ written[c][1].data = MessageEnvelopeFrame(lastOp.arg)

\* one frame, FIN set, opcode 0x2, unmasked, holding the JSON text of the
\* envelope {type: 'notification', payload, responseRequired: true}
NotificationEnvelopeFrame(payload) ==
    UnmaskedFrame(OpBinary, Utf8Encode(JSONStringify(EnvelopeRR(TxtNotification, payload))))

\* C11: under the json format, sendNotification(conn, payload) and
\* broadcastNotification(payload) throw nothing and write, to each connection
\* they write to, exactly one frame with opcode 0x2 whose payload is the
\* serialized envelope {type: 'notification', payload, responseRequired: true};
\* sendNotification writes to its connection.
C11_OutboundNotificationFrame ==
    (lastOp.op \in {"sendNotification", "broadcastNotification"} /\ format = "json")
        => /\ ~lastOp.threw
           /\ lastOp.op = "sendNotification" => written[lastOp.conn] # <<>>
           /\ \A c \in Conns :
                  written[c] # <<>>
                      => /\ Len(written[c]) = 1
                         /\ written[c][1].data = NotificationEnvelopeFrame(lastOp.arg)

(***************************************************************************)
(* Control frames.                                                         *)
(***************************************************************************)
\* C12: a ping frame with payload 'p' received on an Open connection makes
\* the server write to that connection exactly one frame with opcode 0xA
\* whose payload is 'p', write nothing to any other connection and publish
\* no event.
C12_PingEchoedAsPong ==
    (lastOp.op = "data" /\ lastOp.was = "Open" /\ lastOp.arg = FramePing)
        => /\ written = [NoWrites EXCEPT ![lastOp.conn] =
                            <<[kind |-> "frame", data |-> UnmaskedFrame(OpPong, <<112>>),
                               ok |-> TRUE]>>]
           /\ published = <<>>

(***************************************************************************)
(* Teardown.                                                               *)
(***************************************************************************)
\* The server under its event loop: a listener whose event is due is run.
\* The peers and the application are not bound to do anything: a peer may
\* keep its side of a connection open and silent forever.
SpecLive ==
    /\ Init /\ [][Next]_vars
    /\ \A c \in Conns : WF_vars(OnClose(c))
    /\ WF_vars(ServerClosed)

\* C13: once the server has ended a connection's socket on a close frame, the
\* connection eventually is Closed and out of the registry, whatever the peer
\* does or does not do (unless the process has died in between).
C13_CloseFrameLeadsToClosed ==
    \A c \in Conns :
        (sock[c] = "ended")
            ~> (~alive \/ (ConnState(c) = "Closed" /\ c \notin Members(clients)))

\* C14: the 'close' event of a connection that became Open (after a socket
\* error or a close by either side) leaves it Closed and out of the registry
\* and publishes exactly one 'disconnection' event for it; a transport error
\* makes that event due and never kills the process; no connection ever gets
\* more than one 'disconnection', nor one without a 'connection' before it;
\* and only the 'close' event of a socket publishes a 'disconnection'.
C14_OneDisconnectionPerOpenConnection ==
    /\ \A c \in Conns :
           /\ hist[c].disconnection <= 1
           /\ hist[c].disconnection <= hist[c].connection
    /\ lastOp.op = "socketDown" => (alive /\ closeEvt[lastOp.conn] /\ published = <<>>)
    /\ lastOp.op = "close"
           => /\ alive
              /\ ConnState(lastOp.conn) = "Closed"
              /\ lastOp.conn \notin Members(clients)
              /\ published = IF hist[lastOp.conn].connection = 1
                             THEN <<Event("disconnection", lastOp.conn, JSNull)>>
                             ELSE <<>>
              /\ hist[lastOp.conn].disconnection = hist[lastOp.conn].connection
    /\ \A i \in 1..Len(published) :
           published[i].ev = "disconnection" => lastOp.op = "close"

\* C14's case: the 'close' event of a registered connection whose socket the
\* transport had torn down.
C14_Witness ==
    /\ lastOp.op = "close" /\ lastOp.was = "Closing"
    /\ lastOp.conn \in Members(lastOp.before)
    /\ sock[lastOp.conn] = "down"
    /\ hist[lastOp.conn].disconnection = 1

\* C15: when stop() returns, the registry is empty and the socket of every
\* connection that was in it when stop() was called is destroyed (the
\* connection is Closed).
C15_StopDestroysAndClears ==
    lastOp.op = "stop"
        => /\ clients = <<>>
           /\ \A c \in Members(lastOp.before) :
                  sock[c] = "destroyed" /\ ConnState(c) = "Closed"

\* C15's case: stop() was called with two connections in the registry.
C15_Witness ==
    /\ lastOp.op = "stop"
    /\ Len(lastOp.before) = 2
    /\ \A c \in Members(lastOp.before) : sock[c] = "destroyed"

\* C16: no 'disconnection' event is published for a connection that stop()
\* closed.  The connections that were in the registry when stop() was called
\* are those that made their handshake and whose socket is destroyed.
C16_NoDisconnectionAfterStop ==
    \A c \in Conns :
        (srv = "stopped" /\ handlers[c] = "frames" /\ sock[c] = "destroyed")
            => hist[c].disconnection = 0

\* C17: after stop() on a listening server the 'close' event is eventually
\* published (unless the process has died in between), and no step publishes
\* it twice, whatever the accepted connections were doing when stop() was
\* called.
C17_StopLeadsToCloseEvent ==
    /\ [](Len(SelectSeq(published, LAMBDA e : e.ev = "close")) <= 1)
    /\ (srv = "stopped") ~> (~alive \/ closeCbs = 0)

(***************************************************************************)
(* Failures.                                                               *)
(***************************************************************************)
\* C18: per-connection failure isolation.  Whatever bytes a connection has
\* received and whatever error its socket has had, the server is still
\* running, and the step that handled them changed the registry membership of
\* no other connection.
C18_PerConnectionFailureIsolation ==
    /\ alive
    /\ lastOp.op \in {"data", "socketDown"}
           => \A d \in Conns \ {lastOp.conn} :
                  d \in Members(lastOp.before) <=> d \in Members(clients)

\* C19: a complete text frame whose payload cannot be deserialized is
\* dropped: the step throws nothing and publishes no event, and the
\* connection stays Open and registered.
C19_UndecodablePayloadDropped ==
    (lastOp.op = "data" /\ lastOp.was = "Open" /\ lastOp.arg = FrameUndecodable)
        => /\ alive /\ ~lastOp.threw
           /\ published = <<>>
           /\ ConnState(lastOp.conn) = "Open"
           /\ lastOp.conn \in Members(clients)

(***************************************************************************)
(* The frame codec on its own: _encodeFrame on a payload of bytes, then    *)
(* _decodeFrame on the bytes it returned.  lastOp holds the call: arg is   *)
(* what _encodeFrame was given, frames what the calls returned.            *)
(***************************************************************************)
\* Longest payload encoded.
MaxPayloadLen == 2
\* Payload bytes: 'A'; 0xC3 0xA9 is the UTF-8 of one character, each of the
\* two alone is ill-formed; 0xFF is ill-formed anywhere.
CodecBytes == {65, 169, 195, 255}
CodecPayloads == UNION {[1..n -> CodecBytes] : n \in 0..MaxPayloadLen}
CodecOpcodes == {OpText, OpBinary, OpClose, OpPing, OpPong}

EncodeFrame(p, o) ==
    /\ lastOp.op = "init"
    /\ lastOp' = [op |-> "_encodeFrame", conn |-> 0,
                  arg |-> [message |-> JSBytes(p), opcode |-> o],
                  was |-> "None", before |-> <<>>, ended |-> {},
                  frames |-> <<_encodeFrame(JSBytes(p), o)>>,
                  threw |-> IsThrown(_encodeFrame(JSBytes(p), o))]
    /\ UNCHANGED <<alive, srv, closeCbs, format, parserBuffer, clients, sock, closeEvt,
                   handlers, hist, published, written, trace>>

DecodeFrame ==
    /\ lastOp.op = "_encodeFrame" /\ ~lastOp.threw
    /\ lastOp' = [lastOp EXCEPT !.op = "_decodeFrame",
                                !.frames = <<@[1], _decodeFrame(@[1].v)>>,
                                !.threw = IsThrown(_decodeFrame(lastOp.frames[1].v))]
    /\ UNCHANGED <<alive, srv, closeCbs, format, parserBuffer, clients, sock, closeEvt,
                   handlers, hist, published, written, trace>>

NextCodec ==
    \/ \E p \in CodecPayloads, o \in CodecOpcodes : EncodeFrame(p, o)
    \/ DecodeFrame

SpecCodec == Init /\ [][NextCodec]_vars

\* C20: frame round trip.  Decoding the bytes _encodeFrame made of a payload
\* p and an opcode o throws nothing and yields a frame with fin set, opcode o
\* and a payload whose bytes are those of p.
C20_FrameRoundTrip ==
    lastOp.op = "_decodeFrame"
        => /\ ~lastOp.threw
           /\ lastOp.frames[2].fin = 1
           /\ lastOp.frames[2].opcode = lastOp.arg.opcode
           /\ Utf8Encode(lastOp.frames[2].payload.v) = lastOp.arg.message.v

(***************************************************************************)
(* The length bytes on their own: what _encodeFrame and                    *)
(* CreamSocketParser.encode push after the first byte for a payload of a   *)
(* given length.  lastOp holds the call: arg is the length, frames the     *)
(* bytes pushed.                                                           *)
(***************************************************************************)
\* Lengths at which the encoding changes, and one with a third length byte.
LengthBoundaries == {0, 125, 126, 65535, 65536, 16777216}
\* How far around each boundary the lengths are taken.
LengthSpan == 4
PayloadLengths ==
    {n \in UNION {(b - LengthSpan)..(b + LengthSpan) : b \in LengthBoundaries} : n >= 0}

LengthCall(op, n, bytes) ==
    [op |-> op, conn |-> 0, arg |-> n, was |-> "None", before |-> <<>>, ended |-> {},
     frames |-> <<bytes>>, threw |-> FALSE]

EncodeLength(n) ==
    /\ lastOp.op = "init"
    /\ lastOp' = LengthCall("_encodeFrame", n, LengthBytes(n))
    /\ UNCHANGED <<alive, srv, closeCbs, format, parserBuffer, clients, sock, closeEvt,
                   handlers, hist, published, written, trace>>

ParserEncodeLength(n) ==
    /\ lastOp.op = "init"
    /\ lastOp' = LengthCall("encode", n, ParserLengthBytes(n))
    /\ UNCHANGED <<alive, srv, closeCbs, format, parserBuffer, clients, sock, closeEvt,
                   handlers, hist, published, written, trace>>

NextLength ==
    \/ \E n \in PayloadLengths : EncodeLength(n)
    \/ \E n \in PayloadLengths : ParserEncodeLength(n)

SpecLength == Init /\ [][NextLength]_vars

\* C21: the length bytes of a payload of length n are n itself if n < 126;
\* 126 and n as a 2-byte big-endian integer if 126 <= n < 65536; 127 and n as
\* an 8-byte big-endian integer, its four most significant bytes zero, if
\* 65536 <= n < 2^32.
C21_LengthEncoding ==
    lastOp.op \in {"_encodeFrame", "encode"}
        => LET n == lastOp.arg
           IN  lastOp.frames[1] =
                   IF n < 126 THEN <<n>>
                   ELSE IF n < 65536 THEN <<126, n \div 256, n % 256>>
                   ELSE <<127, 0, 0, 0, 0, (n \div 16777216) % 256,
                          (n \div 65536) % 256, (n \div 256) % 256, n % 256>>

(***************************************************************************)
(* _decodeFrame on complete frames, masked with several keys and unmasked. *)
(* lastOp holds the call: arg is the masking key (<<>> if the frame is not *)
(* masked) and the payload as it is on the wire, frames what _decodeFrame  *)
(* returned.                                                               *)
(***************************************************************************)
\* Longest payload decoded: the key is used a second time from byte 5 on.
MaxMaskedLen == 5
MaskingKeys == {<<0, 0, 0, 0>>, <<1, 2, 3, 4>>, <<255, 128, 15, 90>>}
\* The payloads the peer masks.
MaskedPayloads == UNION {[1..n -> CodecBytes] : n \in 0..MaxMaskedLen}

\* what the peer puts on the wire for payload under maskingKey
WirePayload(maskingKey, payload) ==
    [i \in 1..Len(payload) |-> Xor(payload[i], maskingKey[((i - 1) % 4) + 1])]

DecodeCall(maskingKey, wire, buffer) ==
    [op |-> "_decodeFrame", conn |-> 0, arg |-> [maskingKey |-> maskingKey, payload |-> wire],
     was |-> "None", before |-> <<>>, ended |-> {},
     frames |-> <<_decodeFrame(buffer)>>, threw |-> IsThrown(_decodeFrame(buffer))]

DecodeMasked(maskingKey, payload) ==
    /\ lastOp.op = "init"
    /\ LET wire == WirePayload(maskingKey, payload)
       IN  lastOp' = DecodeCall(maskingKey, wire,
                                <<128 + OpBinary, 128 + Len(wire)>> \o maskingKey \o wire)
    /\ UNCHANGED <<alive, srv, closeCbs, format, parserBuffer, clients, sock, closeEvt,
                   handlers, hist, published, written, trace>>

DecodeUnmasked(payload) ==
    /\ lastOp.op = "init"
    /\ lastOp' = DecodeCall(<<>>, payload, <<128 + OpBinary, Len(payload)>> \o payload)
    /\ UNCHANGED <<alive, srv, closeCbs, format, parserBuffer, clients, sock, closeEvt,
                   handlers, hist, published, written, trace>>

NextMask ==
    \/ \E k \in MaskingKeys, p \in MaskedPayloads : DecodeMasked(k, p)
    \/ \E p \in MaskedPayloads : DecodeUnmasked(p)

SpecMask == Init /\ [][NextMask]_vars

\* C22: the payload decoded from a complete masked frame with key k and wire
\* payload P has the byte P[i] XOR k[i mod 4] at every index i and none of the
\* key's bytes; the payload decoded from an unmasked frame is P unchanged.
C22_Unmasking ==
    (lastOp.op = "_decodeFrame" /\ lastOp.arg \in [maskingKey : Seq(0..255), payload : Seq(0..255)])
        => /\ ~lastOp.threw
           /\ Utf8Encode(lastOp.frames[1].payload.v) =
                  IF lastOp.arg.maskingKey = <<>> THEN lastOp.arg.payload
                  ELSE [i \in 1..Len(lastOp.arg.payload) |->
                           Xor(lastOp.arg.payload[i], lastOp.arg.maskingKey[((i - 1) % 4) + 1])]

\* C23: which event a data frame publishes is decided by the type of its
\* envelope, not by its opcode: a 0x2 frame carrying a message envelope
\* publishes message, a 0x1 frame carrying a notification envelope publishes
\* notification.
C23_DispatchByEnvelopeType ==
    (lastOp.op = "data" /\ lastOp.was = "Open"
        /\ lastOp.arg \in {FrameMessageAsBinary, FrameNotificationAsText})
        => /\ Len(published) = 1
           /\ published[1].conn = lastOp.conn
           /\ published[1].ev = IF lastOp.arg = FrameMessageAsBinary THEN "message"
                                ELSE "notification"

\* C24: a connection gets at most one handshake: the 101 response is written
\* to it at most once, and only its first chunk is examined as an upgrade
\* request; a later chunk is frame data, whatever it holds, and brings neither
\* a 101 response nor a connection event.
C24_AtMostOneHandshake ==
    /\ \A c \in Conns : hist[c].resp101 <= 1 /\ hist[c].connection <= 1
    /\ \A c \in Conns : \A i \in 1..Len(written[c]) :
           written[c][i].kind = "http101"
               => lastOp.op = "data" /\ lastOp.conn = c /\ lastOp.was = "AwaitingHandshake"
    /\ \A i \in 1..Len(published) :
           published[i].ev = "connection"
               => lastOp.op = "data" /\ lastOp.was = "AwaitingHandshake"

\* an Open connection was sent the text of an upgrade request
C24_Witness ==
    /\ lastOp.op = "data" /\ lastOp.was = "Open" /\ lastOp.arg = ReqUpgrade
    /\ alive /\ ~lastOp.threw
    /\ hist[lastOp.conn].resp101 = 1
    /\ written = NoWrites /\ published = <<>>

C26_PongAndUnknownOpcodesIgnored ==
    (lastOp.op = "data" /\ lastOp.was \in {"Open", "Closing"}
        /\ Len(lastOp.arg) >= 2 /\ (lastOp.arg[1] % 16) \notin {OpText, OpBinary, OpClose, OpPing})
        => /\ alive /\ ~lastOp.threw
           /\ published = <<>>
           /\ written = NoWrites
           /\ ConnState(lastOp.conn) = lastOp.was
           /\ clients = lastOp.before

\* an Open connection was sent a pong
C26_Witness ==
    /\ lastOp.op = "data" /\ lastOp.was = "Open" /\ lastOp.arg = FramePong
    /\ Len(lastOp.frames) = 1 /\ lastOp.frames[1].opcode = OpPong
    /\ lastOp.conn \in Members(clients)

\* C27: once stop() has been called no connection is added to the registry
\* and no connection event is published, also for a connection that was
\* accepted before stop() and sends its upgrade request after it: the
\* registry stays empty after stop().
C27_NoRegistrationAfterStop ==
    srv = "stopped"
        => /\ clients = <<>>
           /\ \A i \in 1..Len(published) : published[i].ev # "connection"

\* C28: the server never writes to a connection whose socket it has ended:
\* once a close frame of a connection was processed, no later broadcast,
\* broadcastNotification or pong reply writes to that connection.
C28_NoWriteAfterEnd ==
    \A c \in lastOp.ended : written[c] = <<>>

\* C29: frames are dispatched only while the connection is Open: a message or
\* notification event is published for a connection only after its
\* connection event, before its disconnection event, and not once a close
\* frame of the connection was processed.
C29_DispatchOnlyWhileOpen ==
    \A i \in 1..Len(published) :
        published[i].ev \in {"message", "notification"}
            => /\ lastOp.op = "data" /\ lastOp.conn = published[i].conn
               /\ lastOp.was = "Open"
               /\ hist[lastOp.conn].connection = 1
               /\ hist[lastOp.conn].disconnection = 0

====
